---- MODULE Spec2Model ----
(***************************************************************************)
(* Alias analysis of the JIT IR (torch/csrc/jit/passes/alias_analysis.cpp) *)
(* as a state machine: the AliasTracker (points-to graph, wildcards,       *)
(* writes, write cache), the AliasDb graph walker that fills it node by    *)
(* node, the read-only queries of AliasDb, and the topologically valid     *)
(* node mover (WorkingSet / tryMove).                                      *)
(***************************************************************************)
EXTENDS Integers, Sequences, FiniteSets, TLC

\* ------------------------------------------------------------------ bounds
\* Number of nodes in the graph's top block.
MaxNodes == 3
\* Number of (Tensor) graph inputs.
NumInputs == 1
\* Number of tryMove / couldMove calls made on one analysed graph.
MaxMoves == 1
\* Number of values the AliasTracker is driven with on its own.
MaxTrackerValues == 3
\* Number of Elements the AliasTracker driven on its own may create.
MaxElements == 4
\* Number of nodes that write when the AliasTracker is driven on its own.
MaxTrackerNodes == 2
\* Number of registerWrite calls made on the AliasTracker driven on its own.
MaxWrites == 2
\* Number of values the AliasTracker is driven with when it is also queried.
MaxCacheValues == 2

VARIABLES
  nodes,          \* the IR: node id -> [kind, inputs, outputs, blocks, owner]
  order,          \* node list of the graph's top block (graph_->block()->nodes())
  valueType,      \* value id -> type kind of the value (fixed by the graph)
  aliasTracker,   \* AliasDb::aliasTracker_ (class AliasTracker)
  wildcardNodes,  \* AliasDb::wildcardNodes_
  pc,             \* "analyze": the constructor's walk is running; "done"; "error"
  moves,          \* number of mover calls made so far
  last            \* the last call made on the AliasDb and what it returned

vars == <<nodes, order, valueType, aliasTracker, wildcardNodes, pc, moves, last>>

EmptyFn == [x \in {} |-> 0]

Max(a, b) == IF a >= b THEN a ELSE b

SeqToSet(s) == {s[i] : i \in 1..Len(s)}

\* Position of node n in the node list s (0 when absent).
Pos(s, n) == IF \E i \in 1..Len(s) : s[i] = n
             THEN CHOOSE i \in 1..Len(s) : s[i] = n
             ELSE 0

\* ------------------------------------------------------------ identifiers
\* Top-block node t has id t; an If node's inner node and the return nodes
\* of its two blocks get ids derived from t. Outputs get ids after the
\* graph inputs.
InnerId(t) == MaxNodes + t
TrueRet(t) == 2 * MaxNodes + t
FalseRet(t) == 3 * MaxNodes + t
OutValue(n) == NumInputs + n
GraphInputs == [i \in 1..NumInputs |-> i]
\* Every value id: the graph inputs and the outputs of top and inner nodes.
AllValues == 1..(NumInputs + 2 * MaxNodes)

\* =================================================================== types
\* shouldAnnotate(type): Tensor (DynamicType), List, Tuple, Var kinds.
AnnotatedKinds == {"Tensor", "List", "Tuple", "Var"}

shouldAnnotateType(type) == type \in AnnotatedKinds

shouldAnnotate(v) == shouldAnnotateType(valueType[v])

\* ============================================================ AliasTracker
useCache_ == TRUE

NewElement(v) == [value |-> v, pointsTo |-> {}, pointedFrom |-> {}, writers |-> {}]

NewTracker ==
  [elements_ |-> <<>>, map_ |-> EmptyFn, wildcards_ |-> {}, wildcardWriters_ |-> {},
   numWrites_ |-> 0, cacheStale_ |-> TRUE, elementToSet_ |-> EmptyFn,
   setToWrites_ |-> EmptyFn, thrown |-> FALSE]

contains(T, v) == v \in DOMAIN T.map_

isWildcard(T, v) == v \in T.wildcards_

setWildcard(T, v) == [T EXCEPT !.wildcards_ = @ \cup {v}]

\* make_unique<Element>, elements_.emplace, map_.emplace (emplace keeps an
\* existing binding of v).
\* makeFreshValue whose new Element carries back references to the Elements
\* that exist already.
makeFreshValue_staleBackrefs(T, v) ==
  LET els == Append(T.elements_,
                    [NewElement(v) EXCEPT !.pointedFrom = 1..Len(T.elements_)])
      ptr == Len(els)
  IN [T EXCEPT !.elements_ = els,
               !.map_ = IF v \in DOMAIN T.map_ THEN T.map_
                        ELSE [x \in DOMAIN T.map_ \cup {v} |->
                                IF x = v THEN ptr ELSE T.map_[x]]]

makeFreshValue(T, v) ==
  LET els == Append(T.elements_, NewElement(v))
      ptr == Len(els)
  IN [T EXCEPT !.elements_ = els,
               !.map_ = IF v \in DOMAIN T.map_ THEN T.map_
                        ELSE [x \in DOMAIN T.map_ \cup {v} |->
                                IF x = v THEN ptr ELSE T.map_[x]]]

\* makePointerTo that does not record the back reference.
makePointerTo_noBackref(T, v, to) ==
  IF v = to THEN T
  ELSE IF isWildcard(T, to) THEN setWildcard(T, v)
  ELSE LET T1 == IF ~contains(T, to) THEN makeFreshValue(T, to) ELSE T
           T2 == IF ~contains(T1, v) THEN makeFreshValue(T1, v) ELSE T1
       IN [T2 EXCEPT !.elements_[T2.map_[v]].pointsTo = @ \cup {T2.map_[to]}]

makePointerTo(T, v, to) ==
  IF v = to THEN T
  ELSE IF isWildcard(T, to) THEN setWildcard(T, v)
  ELSE LET T1 == IF ~contains(T, to) THEN makeFreshValue(T, to) ELSE T
           T2 == IF ~contains(T1, v) THEN makeFreshValue(T1, v) ELSE T1
           vEl == T2.map_[v]
           toEl == T2.map_[to]
       IN [T2 EXCEPT !.elements_[vEl].pointsTo = @ \cup {toEl},
                     !.elements_[toEl].pointedFrom = @ \cup {vEl}]

\* AT_ASSERT(map_.count(v)) aborts the walk: recorded in `thrown`.
registerWrite(T, v, n) ==
  LET T1 == [T EXCEPT !.numWrites_ = @ + 1]
  IN IF isWildcard(T1, v)
     THEN [T1 EXCEPT !.wildcardWriters_ = @ \cup {n}]
     ELSE IF ~contains(T1, v)
          THEN [T1 EXCEPT !.thrown = TRUE]
          ELSE [T1 EXCEPT !.elements_[T1.map_[v]].writers = @ \cup {n}]

\* Element::bfs: the elements visited from `root` in direction `dir`.
Neighbours(els, e, dir) ==
  CASE dir = "POINTS_TO" -> els[e].pointsTo
    [] dir = "POINTED_FROM" -> els[e].pointedFrom
    [] dir = "BOTH" -> els[e].pointsTo \cup els[e].pointedFrom

RECURSIVE bfsVisit(_, _, _, _)
bfsVisit(els, queue, seen, dir) ==
  IF queue = {} THEN seen
  ELSE LET seen2 == seen \cup queue
           next == UNION {Neighbours(els, e, dir) : e \in queue} \ seen2
       IN bfsVisit(els, next, seen2, dir)

bfs(T, root, dir) == bfsVisit(T.elements_, {root}, {}, dir)

writesTo(T, n, v) ==
  IF isWildcard(T, v) THEN n \in T.wildcardWriters_
  ELSE IF ~contains(T, v) THEN FALSE
  ELSE n \in T.elements_[T.map_[v]].writers

pointsTo(T, a, b) ==
  IF ~contains(T, a) THEN FALSE
  ELSE IF isWildcard(T, a) \/ isWildcard(T, b) THEN TRUE
  ELSE \E e \in bfs(T, T.map_[a], "POINTS_TO") : T.elements_[e].value = b

\* getAliases that follows pointsTo only.
getAliases_pointsToOnly(T, v) ==
  IF ~contains(T, v) THEN {}
  ELSE {T.elements_[e].value : e \in bfs(T, T.map_[v], "POINTS_TO")}

getAliases(T, v) ==
  IF ~contains(T, v) THEN {}
  ELSE {T.elements_[e].value : e \in bfs(T, T.map_[v], "BOTH")}

\* ---- caching layer
\* cache(): every element that points to nothing gets a fresh set id (the
\* id is modelled by the element itself), propagated along pointedFrom.
cache(T) ==
  IF ~T.cacheStale_ THEN T
  ELSE
    LET els == T.elements_
        roots == {e \in 1..Len(els) : els[e].pointsTo = {}}
        members(r) == bfs(T, r, "POINTED_FROM")
        assigned == UNION {members(r) : r \in roots}
        oldSets(e) == IF e \in DOMAIN T.elementToSet_ THEN T.elementToSet_[e] ELSE {}
        oldWrites(id) == IF id \in DOMAIN T.setToWrites_ THEN T.setToWrites_[id] ELSE {}
        newWrites(id) == UNION {els[e].writers : e \in members(id)}
        ids == {r \in roots : newWrites(r) # {}}
    IN [T EXCEPT
          !.elementToSet_ =
             [e \in DOMAIN T.elementToSet_ \cup assigned |->
                oldSets(e) \cup {r \in roots : e \in members(r)}],
          !.setToWrites_ =
             [id \in DOMAIN T.setToWrites_ \cup ids |->
                oldWrites(id) \cup (IF id \in roots THEN newWrites(id) ELSE {})],
          !.cacheStale_ = FALSE]

hasWritersCached(T, v) ==
  LET C == cache(T)
  IN \E set \in C.elementToSet_[C.map_[v]] :
       set \in DOMAIN C.setToWrites_ /\ C.setToWrites_[set] # {}

getWritersCached(T, v) ==
  LET C == cache(T)
  IN UNION {C.setToWrites_[set] :
              set \in C.elementToSet_[C.map_[v]] \cap DOMAIN C.setToWrites_}

\* getWrites(v): all nodes that write to `v` or a value that may alias `v`.
getWrites(T, v) ==
  IF ~contains(T, v) THEN {}
  ELSE IF useCache_ THEN T.wildcardWriters_ \cup getWritersCached(T, v)
  ELSE T.wildcardWriters_ \cup
       UNION {T.elements_[e].writers : e \in bfs(T, T.map_[v], "BOTH")}

\* The tracker after getWrites(v): the mutable cache may have been built.
getWritesEffect(T, v) ==
  IF contains(T, v) /\ useCache_ THEN cache(T) ELSE T

hasWriters(T, v) ==
  IF ~contains(T, v) THEN FALSE
  ELSE IF isWildcard(T, v) THEN T.numWrites_ = 0
  ELSE IF Cardinality(T.wildcardWriters_) > 0 THEN TRUE
  ELSE IF useCache_ THEN hasWritersCached(T, v)
  ELSE \E e \in bfs(T, T.map_[v], "BOTH") : T.elements_[e].writers # {}

hasWritersEffect(T, v) ==
  IF contains(T, v) /\ ~isWildcard(T, v) /\ T.wildcardWriters_ = {} /\ useCache_
  THEN cache(T) ELSE T

\* ================================================================== the IR
\* An alias annotation of a schema argument or return (c10::AliasInfo).
NoAlias == [present |-> FALSE, sets |-> {}, isWrite |-> FALSE, isWildcard |-> FALSE]
Alias(label) == [present |-> TRUE, sets |-> {label}, isWrite |-> FALSE, isWildcard |-> FALSE]
AliasWrite(label) == [present |-> TRUE, sets |-> {label}, isWrite |-> TRUE, isWildcard |-> FALSE]
AliasUnion(l1, l2) == [present |-> TRUE, sets |-> {l1, l2}, isWrite |-> FALSE, isWildcard |-> FALSE]

NoSchema == [arguments |-> <<>>, returns |-> <<>>, is_vararg |-> FALSE, is_varret |-> FALSE]

\* The operator schemas of the nodes drawn below:
\*   aten::relu(Tensor self) -> Tensor
\*   aten::t(Tensor(a) self) -> Tensor(a)
\*   aten::relu_(Tensor(a!) self) -> Tensor(a)
\*   aten::numel(Tensor self) -> int
\* and of operators registered with a schema of each further form that
\* analyzeImpl has a branch for:
\*   op::variadic(...) -> t                          (is_vararg)
\*   op::write_both_(Tensor(a!) self, Tensor(a!) other) -> Tensor(a)
\*   op::either(Tensor self) -> Tensor(a|b)
SchemaOf(kind) ==
  CASE kind = "aten::relu" ->
         [arguments |-> <<NoAlias>>, returns |-> <<NoAlias>>,
          is_vararg |-> FALSE, is_varret |-> FALSE]
    [] kind = "aten::t" ->
         [arguments |-> <<Alias("a")>>, returns |-> <<Alias("a")>>,
          is_vararg |-> FALSE, is_varret |-> FALSE]
    [] kind = "aten::relu_" ->
         [arguments |-> <<AliasWrite("a")>>, returns |-> <<Alias("a")>>,
          is_vararg |-> FALSE, is_varret |-> FALSE]
    [] kind = "aten::numel" ->
         [arguments |-> <<NoAlias>>, returns |-> <<NoAlias>>,
          is_vararg |-> FALSE, is_varret |-> FALSE]
    [] kind = "op::variadic" ->
         [arguments |-> <<>>, returns |-> <<NoAlias>>,
          is_vararg |-> TRUE, is_varret |-> FALSE]
    [] kind = "op::write_both_" ->
         [arguments |-> <<AliasWrite("a"), AliasWrite("a")>>, returns |-> <<Alias("a")>>,
          is_vararg |-> FALSE, is_varret |-> FALSE]
    [] kind = "op::either" ->
         [arguments |-> <<NoAlias>>, returns |-> <<AliasUnion("a", "b")>>,
          is_vararg |-> FALSE, is_varret |-> FALSE]
    [] OTHER -> NoSchema

\* Kinds analyzeImpl dispatches to a hand-written analyzer.
CreatorKinds == {"prim::Constant"}
ExtractorKinds == {"prim::PythonOp"}
UnaryKinds == {"prim::PythonOp", "aten::relu", "aten::t", "aten::relu_"}
InnerKinds == {"prim::PythonOp", "aten::relu", "aten::t", "aten::relu_"}
\* Kinds of the nodes that produce a scalar (int) here.
ScalarKinds == {"prim::PythonOp", "aten::numel"}

MkNode(kind, inputs, outputs, blocks, owner) ==
  [kind |-> kind, inputs |-> inputs, outputs |-> outputs, blocks |-> blocks,
   owner |-> owner]

\* node->schema()
schema(N, n) == SchemaOf(N[n].kind)

\* The nodes a node shape adds to the IR, as a function id -> node.
CreatorShape(id, owner) ==
  id :> MkNode("prim::Constant", <<>>, <<OutValue(id)>>, <<>>, owner)

UnaryShape(id, owner, kind, v) ==
  id :> MkNode(kind, <<v>>, <<OutValue(id)>>, <<>>, owner)

\* prim::If whose true block holds one node and yields its output, and whose
\* false block is empty and yields the outer value u.
IfShape(t, innerKind, v, u) ==
  (t :> MkNode("prim::If", <<>>, <<OutValue(t)>>,
               <<[nodes |-> <<InnerId(t)>>, ret |-> TrueRet(t)],
                 [nodes |-> <<>>, ret |-> FalseRet(t)]>>, 0))
  @@ UnaryShape(InnerId(t), t, innerKind, v)
  @@ (TrueRet(t) :> MkNode("prim::Return", <<OutValue(InnerId(t))>>, <<>>, <<>>, t))
  @@ (FalseRet(t) :> MkNode("prim::Return", <<u>>, <<>>, <<>>, t))

\* Values defined in the top block before node t is appended.
TopValues(ord) == SeqToSet(GraphInputs) \cup {OutValue(ord[i]) : i \in 1..Len(ord)}

\* The values a node of kind k takes as its input: a prim::PythonOp takes a
\* value of any type, the aten operators a Tensor.
OperandsOf(k, ord) ==
  IF k = "prim::PythonOp" THEN TopValues(ord)
  ELSE {v \in TopValues(ord) : valueType[v] = "Tensor"}

\* The node shapes that can stand at position t: the kind agrees with the
\* type of the node's output and of its input.
NodeShapes(t, ord) ==
  IF valueType[OutValue(t)] = "Tensor"
  THEN {CreatorShape(t, 0)}
       \cup UNION {{UnaryShape(t, 0, k, v) : v \in OperandsOf(k, ord)} :
                   k \in UnaryKinds}
       \cup UNION {{IfShape(t, k, v, GraphInputs[1]) : v \in OperandsOf(k, ord)} :
                   k \in InnerKinds}
  ELSE {CreatorShape(t, 0)}
       \cup UNION {{UnaryShape(t, 0, k, v) : v \in OperandsOf(k, ord)} :
                   k \in ScalarKinds}

BinaryShape(id, owner, kind, v, u) ==
  id :> MkNode(kind, <<v, u>>, <<OutValue(id)>>, <<>>, owner)

\* Kinds of the nodes with one Tensor input and one Tensor output drawn for
\* the graphs of registered operators.
SchemaKinds == {"aten::relu", "aten::relu_", "op::either", "op::variadic"}

\* The node shapes of those graphs: the variadic operator yields a Tensor or
\* an int, every other node a Tensor.
SchemaShapes(t, ord) ==
  IF valueType[OutValue(t)] = "Tensor"
  THEN UNION {{UnaryShape(t, 0, k, v) : v \in OperandsOf(k, ord)} : k \in SchemaKinds}
       \cup {BinaryShape(t, 0, "op::write_both_", v, u) :
               v \in OperandsOf("op::write_both_", ord),
               u \in OperandsOf("op::write_both_", ord)}
  ELSE {UnaryShape(t, 0, "op::variadic", v) : v \in OperandsOf("op::variadic", ord)}

\* The further values of a prim::Loop at top position t: its second output,
\* the two body inputs, and the scalars (max trip count, condition, trip
\* count, the body's continue condition).
LoopValue(t, k) == NumInputs + 2 * MaxNodes + 7 * (t - 1) + k
LoopValues == {LoopValue(t, k) : t \in 1..MaxNodes, k \in 1..7}
LoopScalars == {LoopValue(t, k) : t \in 1..MaxNodes, k \in 4..7}

\* Kinds of the node a loop body may hold.
BodyKinds == {"aten::relu", "aten::t", "aten::relu_"}

\* prim::Loop(maxTrip, cond, c1, c2) with two loop-carried values. The body
\* block has the inputs (trip, b1, b2), holds the given inner nodes, and
\* yields (continue, x, y).
LoopShape(t, c1, c2, inner, x, y) ==
  (t :> MkNode("prim::Loop", <<LoopValue(t, 4), LoopValue(t, 5), c1, c2>>,
               <<OutValue(t), LoopValue(t, 1)>>,
               <<[inputs |-> <<LoopValue(t, 6), LoopValue(t, 2), LoopValue(t, 3)>>,
                  nodes |-> IF inner = EmptyFn THEN <<>> ELSE <<InnerId(t)>>,
                  ret |-> TrueRet(t)]>>, 0))
  @@ inner
  @@ (TrueRet(t) :> MkNode("prim::Return", <<LoopValue(t, 7), x, y>>, <<>>, <<>>, t))

\* The loops that can stand at position t: the carried values are Tensors
\* of the top block, the body is empty or holds one node applied to a body
\* input, and each body output is a body input or the inner node's output.
LoopShapes(t, ord) ==
  LET carried == {v \in TopValues(ord) : valueType[v] = "Tensor"}
      bodyIn == {LoopValue(t, 2), LoopValue(t, 3)}
      inners == {EmptyFn} \cup {UnaryShape(InnerId(t), t, k, v) : k \in BodyKinds, v \in bodyIn}
      yields(inner) == bodyIn \cup (IF inner = EmptyFn THEN {} ELSE {OutValue(InnerId(t))})
  IN UNION {{LoopShape(t, c1, c2, inner, x, y) :
               c1 \in carried, c2 \in carried, x \in yields(inner), y \in yields(inner)} :
            inner \in inners}

\* block->outputs() are the inputs of the block's return node.
BlockOutputs(N, b) == N[b.ret].inputs

\* ================================================================= AliasDb
\* The walker's state: the tracker and the wildcard index.
hasWildcard(T, N, n) ==
  \/ \E i \in 1..Len(N[n].inputs) : isWildcard(T, N[n].inputs[i])
  \/ \E i \in 1..Len(N[n].outputs) : isWildcard(T, N[n].outputs[i])

makeAliasOf(T, value, to) ==
  IF ~shouldAnnotate(value)
  THEN IF shouldAnnotate(to) THEN [T EXCEPT !.thrown = TRUE] ELSE T
  ELSE makePointerTo(T, value, to)

giveFreshAlias(T, value) ==
  IF ~shouldAnnotate(value) THEN T
  ELSE IF contains(T, value) THEN T
  ELSE makeFreshValue(T, value)

\* makeAllAlias(values, setTracker)
RECURSIVE makeAllAliasLoop(_, _, _)
makeAllAliasLoop(T, values, i) ==
  IF i > Len(values) THEN T
  ELSE makeAllAliasLoop(makePointerTo(T, values[i], values[1]), values, i + 1)

makeAllAlias(T, values) ==
  IF Len(values) > 0
  THEN makeAllAliasLoop(makeFreshValue(T, values[1]), values, 1)
  ELSE T

\* analyzeCreator / analyzeExtractor: loops over the outputs
RECURSIVE analyzeCreator(_, _, _)
analyzeCreator(T, outputs, i) ==
  IF i > Len(outputs) THEN T
  ELSE analyzeCreator(giveFreshAlias(T, outputs[i]), outputs, i + 1)

RECURSIVE analyzeExtractor(_, _, _)
analyzeExtractor(T, outputs, i) ==
  IF i > Len(outputs) THEN T
  ELSE analyzeExtractor(setWildcard(T, outputs[i]), outputs, i + 1)

\* analyzeImpl, schema path, first loop: bind formals to actuals and record
\* writes. The state is [T, formalToActual].
RECURSIVE bindFormals(_, _, _, _)
bindFormals(S, N, n, i) ==
  IF i > Len(schema(N, n).arguments) \/ S.T.thrown THEN S
  ELSE
    LET formal == schema(N, n).arguments[i]
        actualValue == N[n].inputs[i]
    IN IF ~formal.present THEN bindFormals(S, N, n, i + 1)
       ELSE IF ~shouldAnnotate(actualValue) THEN bindFormals(S, N, n, i + 1)
       ELSE IF formal.isWildcard \/ Cardinality(formal.sets) # 1
            THEN [S EXCEPT !.T.thrown = TRUE]
       ELSE
         LET formalAlias == CHOOSE a \in formal.sets : TRUE
         IN IF formalAlias \in DOMAIN S.formalToActual
            THEN bindFormals(S, N, n, i + 1)
            ELSE bindFormals(
                   [T |-> IF formal.isWrite
                          THEN registerWrite(S.T, actualValue, n) ELSE S.T,
                    formalToActual |-> S.formalToActual @@ (formalAlias :> actualValue)],
                   N, n, i + 1)

\* the loop over formal->sets() of one return
RECURSIVE aliasReturnSets(_, _, _, _, _)
aliasReturnSets(T, formalToActual, formal, actual, todo) ==
  IF todo = {} \/ T.thrown THEN T
  ELSE
    LET formalAlias == CHOOSE a \in todo : TRUE
        rest == todo \ {formalAlias}
    IN IF formalAlias \notin DOMAIN formalToActual
       THEN aliasReturnSets(
              IF Cardinality(formal.sets) = 1 THEN giveFreshAlias(T, actual) ELSE T,
              formalToActual, formal, actual, rest)
       ELSE aliasReturnSets(makeAliasOf(T, actual, formalToActual[formalAlias]),
                            formalToActual, formal, actual, rest)

\* analyzeImpl, schema path, second loop: give aliases to the outputs
RECURSIVE aliasReturns(_, _, _, _, _)
aliasReturns(T, formalToActual, N, n, i) ==
  IF i > Len(schema(N, n).returns) \/ T.thrown THEN T
  ELSE
    LET actual == N[n].outputs[i]
        formal == schema(N, n).returns[i]
    IN IF ~formal.present
       THEN aliasReturns(giveFreshAlias(T, actual), formalToActual, N, n, i + 1)
       ELSE IF ~shouldAnnotate(actual)
       THEN aliasReturns(T, formalToActual, N, n, i + 1)
       ELSE IF formal.isWildcard
       THEN aliasReturns(setWildcard(T, actual), formalToActual, N, n, i + 1)
       ELSE
         LET T1 == aliasReturnSets(T, formalToActual, formal, actual, formal.sets)
             T2 == IF formal.isWrite /\ ~T1.thrown
                   THEN registerWrite(T1, actual, n) ELSE T1
         IN aliasReturns(T2, formalToActual, N, n, i + 1)

\* analyzeImpl's schema path without the test for variadic schemas.
analyzeSchema_noVariadicCheck(T, N, n) ==
  LET S == bindFormals([T |-> T, formalToActual |-> EmptyFn], N, n, 1)
  IN aliasReturns(S.T, S.formalToActual, N, n, 1)

analyzeSchema(T, N, n) ==
  LET sch == schema(N, n)
      hasMutableOutputs ==
        \E i \in 1..Len(N[n].outputs) : shouldAnnotate(N[n].outputs[i])
  IN IF (sch.is_vararg \/ sch.is_varret) /\ hasMutableOutputs
     THEN [T EXCEPT !.thrown = TRUE]
     ELSE LET S == bindFormals([T |-> T, formalToActual |-> EmptyFn], N, n, 1)
          IN aliasReturns(S.T, S.formalToActual, N, n, 1)

\* analyze(Block*), analyze(Node*), analyzeImpl, analyzeIf.
\* D is [T |-> tracker, W |-> wildcardNodes_].
RECURSIVE analyzeBlock(_, _, _, _)
RECURSIVE analyzeNode(_, _, _)

\* ArrayRef::slice(k): the sequence without its first k entries.
slice(seq, k) == SubSeq(seq, k + 1, Len(seq))

\* mapAliases(from, to): each value of `from` is made to point to its
\* partner in `to`.
RECURSIVE mapAliases(_, _, _, _)
mapAliases(T, from, to, i) ==
  IF i > Len(to) \/ T.thrown THEN T
  ELSE mapAliases(makeAliasOf(T, from[i], to[i]), from, to, i + 1)

\* analyzeLoop: the body is analysed once.
analyzeLoop(D, N, n) ==
  LET bodyBlock == N[n].blocks[1]
      loopCarriedInputs == slice(N[n].inputs, 2)
      blockInputs == slice(bodyBlock.inputs, 1)
      blockOutputs == slice(BlockOutputs(N, bodyBlock), 1)
      T1 == mapAliases(D.T, blockInputs, loopCarriedInputs, 1)
      D2 == analyzeBlock([D EXCEPT !.T = T1], N, bodyBlock.nodes, 1)
      T3 == mapAliases(D2.T, N[n].outputs, blockOutputs, 1)
  IN IF T1.thrown THEN [D EXCEPT !.T = T1]
     ELSE IF D2.T.thrown THEN D2
     ELSE [D2 EXCEPT !.T = T3]

\* analyzeIf that makes the output an alias of the true branch's output only.
analyzeIf_trueBranchOnly(D, N, n) ==
  LET trueBlock == N[n].blocks[1]
      falseBlock == N[n].blocks[2]
      D1 == analyzeBlock(D, N, trueBlock.nodes, 1)
      D2 == analyzeBlock(D1, N, falseBlock.nodes, 1)
      T1 == makeAliasOf(D2.T, N[n].outputs[1], BlockOutputs(N, trueBlock)[1])
  IN IF D2.T.thrown THEN D2 ELSE [D2 EXCEPT !.T = T1]

analyzeIf(D, N, n) ==
  LET trueBlock == N[n].blocks[1]
      falseBlock == N[n].blocks[2]
      D1 == analyzeBlock(D, N, trueBlock.nodes, 1)
      D2 == analyzeBlock(D1, N, falseBlock.nodes, 1)
      nodeOutput == N[n].outputs[1]
      trueOutput == BlockOutputs(N, trueBlock)[1]
      falseOutput == BlockOutputs(N, falseBlock)[1]
      T1 == makeAliasOf(D2.T, nodeOutput, trueOutput)
      T2 == IF T1.thrown THEN T1 ELSE makeAliasOf(T1, nodeOutput, falseOutput)
  IN IF D2.T.thrown THEN D2 ELSE [D2 EXCEPT !.T = T2]

analyzeImpl(D, N, n) ==
  LET kind == N[n].kind
  IN CASE kind = "prim::If" -> analyzeIf(D, N, n)
       [] kind = "prim::Loop" -> analyzeLoop(D, N, n)
       [] kind \in CreatorKinds -> [D EXCEPT !.T = analyzeCreator(D.T, N[n].outputs, 1)]
       [] kind \in ExtractorKinds -> [D EXCEPT !.T = analyzeExtractor(D.T, N[n].outputs, 1)]
       [] OTHER -> [D EXCEPT !.T = analyzeSchema(D.T, N, n)]

analyzeNode(D, N, n) ==
  IF D.T.thrown THEN D
  ELSE LET D1 == analyzeImpl(D, N, n)
       IN IF D1.T.thrown THEN D1
          ELSE IF hasWildcard(D1.T, N, n)
               THEN [D1 EXCEPT !.W = @ \cup {n}]
               ELSE D1

analyzeBlock(D, N, blockNodes, i) ==
  IF i > Len(blockNodes) THEN D
  ELSE analyzeBlock(analyzeNode(D, N, blockNodes[i]), N, blockNodes, i + 1)

\* ---- node order queries of the IR
\* The node of the top block that holds n.
RECURSIVE TopOf(_, _)
TopOf(N, n) == IF N[n].owner = 0 THEN n ELSE TopOf(N, N[n].owner)

\* The chain of nodes from n up through the nodes that own its blocks.
RECURSIVE OwnerChain(_, _)
OwnerChain(N, n) == IF N[n].owner = 0 THEN <<n>> ELSE <<n>> \o OwnerChain(N, N[n].owner)

\* Position of a node within its own block.
TopoPosition(N, ord, n) ==
  IF N[n].owner = 0 THEN Pos(ord, n)
  ELSE LET bs == N[N[n].owner].blocks
           b == CHOOSE i \in 1..Len(bs) : n \in SeqToSet(bs[i].nodes) \/ n = bs[i].ret
       IN IF n = bs[b].ret THEN Len(bs[b].nodes) + 1 ELSE Pos(bs[b].nodes, n)

SameBlock(N, a, b) ==
  /\ N[a].owner = N[b].owner
  /\ \/ N[a].owner = 0
     \/ \E i \in 1..Len(N[N[a].owner].blocks) :
          LET blk == N[N[a].owner].blocks[i]
          IN {a, b} \subseteq SeqToSet(blk.nodes) \cup {blk.ret}

\* Node::isAfter: topological position within a block; for nodes of different
\* blocks, the first pair of ancestors (searching rhs's chain for each
\* ancestor of lhs) that share a block is compared.
isAfter(N, ord, a, b) ==
  IF SameBlock(N, a, b) THEN TopoPosition(N, ord, a) > TopoPosition(N, ord, b)
  ELSE LET lc == OwnerChain(N, a)
           rc == OwnerChain(N, b)
           hits == {p \in (1..Len(lc)) \X (1..Len(rc)) : SameBlock(N, lc[p[1]], rc[p[2]])}
           first == CHOOSE p \in hits :
                      \A q \in hits : p[1] < q[1] \/ (p[1] = q[1] /\ p[2] <= q[2])
       IN TopoPosition(N, ord, lc[first[1]]) > TopoPosition(N, ord, rc[first[2]])

isBefore(N, ord, a, b) == IF a = b THEN FALSE ELSE ~isAfter(N, ord, a, b)

\* Node::moveAfter / Node::moveBefore on the node list.
RemoveNode(ord, n) == SelectSeq(ord, LAMBDA x : x # n)

InsertAt(ord, i, n) == SubSeq(ord, 1, i) \o <<n>> \o SubSeq(ord, i + 1, Len(ord))

moveAfter(ord, toMove, movePoint) ==
  LET r == RemoveNode(ord, toMove) IN InsertAt(r, Pos(r, movePoint), toMove)

moveBefore(ord, toMove, movePoint) ==
  LET r == RemoveNode(ord, toMove) IN InsertAt(r, Pos(r, movePoint) - 1, toMove)

\* ---- AliasDb queries
NodeValues(N, n) == SeqToSet(N[n].inputs) \cup SeqToSet(N[n].outputs)

AliasDb_writesTo(T, n, v) ==
  IF ~shouldAnnotate(v) THEN FALSE ELSE writesTo(T, n, v)

AliasDb_hasWriters(T, N, n) == \E v \in NodeValues(N, n) : hasWriters(T, v)

hasWrites(T, N, n) == \E v \in NodeValues(N, n) : AliasDb_writesTo(T, n, v)

AliasDb_getWrites(T, N, n) == {v \in NodeValues(N, n) : AliasDb_writesTo(T, n, v)}

getWriters(T, N, n) == UNION {getWrites(T, v) : v \in NodeValues(N, n)}

\* The tracker after getWriters(n): getWrites builds the cache when one of
\* the values has an Element.
getWritersEffect(T, N, n) ==
  IF \E v \in NodeValues(N, n) : contains(T, v) /\ useCache_ THEN cache(T) ELSE T

writesToInputAlias(T, N, n) ==
  \E v \in AliasDb_getWrites(T, N, n) :
    \E i \in 1..Len(GraphInputs) :
      shouldAnnotate(GraphInputs[i]) /\ pointsTo(T, GraphInputs[i], v)

\* All nodes here are in one Graph, so isBeforeSameGraph is lhs->isBefore(rhs).
isBeforeSameGraph(N, ord, a, b) == isBefore(N, ord, a, b)

\* hasWritersBefore that counts the writers after n as well.
hasWritersBefore_anyWriter(T, N, ord, n) ==
  IF hasWildcard(T, N, n) THEN TRUE
  ELSE getWriters(T, N, n) # {}

hasWritersBefore(T, N, ord, n) ==
  IF hasWildcard(T, N, n) THEN TRUE
  ELSE \E writer \in getWriters(T, N, n) : isBeforeSameGraph(N, ord, writer, n)

\* getLastWildcard: std::max_element over the unordered wildcardNodes_ with
\* isBeforeSameGraph as "less". The scan keeps a candidate and replaces it by
\* each element the candidate is before; its result depends on the iteration
\* order when two nodes are each before the other (a node and the node that
\* owns its block): every node that can be the result is in this set.
RECURSIVE maxElementScan(_, _, _, _, _)
maxElementScan(N, ord, largest, seq, i) ==
  IF i > Len(seq) THEN largest
  ELSE maxElementScan(N, ord,
         IF isBeforeSameGraph(N, ord, largest, seq[i]) THEN seq[i] ELSE largest,
         seq, i + 1)

RECURSIVE Orderings(_)
Orderings(S) ==
  IF S = {} THEN {<<>>}
  ELSE UNION {{<<x>> \o p : p \in Orderings(S \ {x})} : x \in S}

getLastWildcard(N, ord, W) ==
  {maxElementScan(N, ord, p[1], p, 2) : p \in Orderings(W)}

\* hasUntrackedEffects(node), given the node getLastWildcard returned
\* (0 for nullopt).
hasUntrackedEffectsWith(T, N, ord, node, lastWildcard) ==
  LET touchesWildcard ==
        IF lastWildcard # 0
        THEN hasWrites(T, N, node) /\
             (isBeforeSameGraph(N, ord, node, lastWildcard) \/ node = lastWildcard)
        ELSE FALSE
  IN writesToInputAlias(T, N, node) \/ touchesWildcard

\* The set of results hasUntrackedEffects(node) can return.
hasUntrackedEffects(T, N, ord, W, node) ==
  IF W = {} THEN {hasUntrackedEffectsWith(T, N, ord, node, 0)}
  ELSE {hasUntrackedEffectsWith(T, N, ord, node, lw) : lw \in getLastWildcard(N, ord, W)}

\* ============================================================== WorkingSet
\* findSameBlock(target, n): 0 stands for nullptr.
RECURSIVE findSameBlock(_, _, _)
findSameBlock(N, target, n) ==
  IF SameBlock(N, target, n) THEN target
  ELSE IF N[target].owner = 0 THEN 0
  ELSE findSameBlock(N, N[target].owner, n)

\* output->uses(): the nodes that have the value among their inputs
\* (a block's return node uses the block's outputs).
Uses(N, v) == {u \in DOMAIN N : v \in SeqToSet(N[u].inputs)}

getUsersSameBlock(N, n) ==
  {findSameBlock(N, u, n) :
     u \in UNION {Uses(N, N[n].outputs[i]) : i \in 1..Len(N[n].outputs)}} \ {0}

getWritersSameBlock(T, N, n) ==
  {findSameBlock(N, w, n) : w \in getWriters(T, N, n)} \ {0}

\* counters of an unordered_map<Node*, size_t>
Increment(counts, keys) ==
  [k \in DOMAIN counts \cup keys |->
     (IF k \in DOMAIN counts THEN counts[k] ELSE 0) + (IF k \in keys THEN 1 ELSE 0)]

EraseOnes(counts, keys) ==
  [k \in {x \in DOMAIN counts : ~(x \in keys /\ counts[x] = 1)} |-> counts[k]]

EmptyWorkingSet ==
  [nodes_ |-> <<>>, users_ |-> EmptyFn, writers_ |-> EmptyFn,
   numWildcards_ |-> 0, numWriterNodes_ |-> 0]

WorkingSet_add(ws, T, N, n) ==
  [nodes_ |-> Append(ws.nodes_, n),
   users_ |-> Increment(ws.users_, getUsersSameBlock(N, n)),
   writers_ |-> Increment(ws.writers_, getWritersSameBlock(T, N, n)),
   numWildcards_ |-> ws.numWildcards_ + (IF hasWildcard(T, N, n) THEN 1 ELSE 0),
   numWriterNodes_ |-> ws.numWriterNodes_ + (IF hasWrites(T, N, n) THEN 1 ELSE 0)]

eraseMover(ws, T, N) ==
  LET mover == Head(ws.nodes_)
  IN [nodes_ |-> Tail(ws.nodes_),
      users_ |-> EraseOnes(ws.users_, getUsersSameBlock(N, mover)),
      writers_ |-> EraseOnes(ws.writers_, getWritersSameBlock(T, N, mover)),
      numWildcards_ |-> ws.numWildcards_ - (IF hasWildcard(T, N, mover) THEN 1 ELSE 0),
      numWriterNodes_ |-> ws.numWriterNodes_ - (IF hasWrites(T, N, mover) THEN 1 ELSE 0)]

producesFor(ws, n) == n \in DOMAIN ws.users_

consumesFrom(ws, N, n) ==
  \E i \in 1..Len(ws.nodes_) : ws.nodes_[i] \in getUsersSameBlock(N, n)

\* hasDataDependency with the consumesFrom branch lost: producers of the
\* working set are not seen.
hasDataDependency_producesOnly(ws, N, ord, n) ==
  IF isAfter(N, ord, n, Head(ws.nodes_))
  THEN producesFor(ws, n)
  ELSE FALSE

hasDataDependency(ws, N, ord, n) ==
  IF isAfter(N, ord, n, Head(ws.nodes_))
  THEN producesFor(ws, n)
  ELSE consumesFrom(ws, N, n)

hasMutabilityDependency(ws, T, N, n) ==
  IF ws.numWildcards_ > 0 /\ hasWrites(T, N, n) THEN TRUE
  ELSE IF hasWildcard(T, N, n) /\ ws.numWriterNodes_ > 0 THEN TRUE
  ELSE IF n \in DOMAIN ws.writers_ THEN TRUE
  ELSE \E i \in 1..Len(ws.nodes_) : ws.nodes_[i] \in getWritersSameBlock(T, N, n)

dependsOn(ws, T, N, ord, n) ==
  IF ws.nodes_ = <<>> THEN FALSE
  ELSE hasDataDependency(ws, N, ord, n) \/ hasMutabilityDependency(ws, T, N, n)

\* Does dependsOn(n) get as far as calling getWriters(n)?
dependsOnAsksWriters(ws, T, N, ord, n) ==
  /\ ws.nodes_ # <<>>
  /\ ~hasDataDependency(ws, N, ord, n)
  /\ ~(ws.numWildcards_ > 0 /\ hasWrites(T, N, n))
  /\ ~(hasWildcard(T, N, n) /\ ws.numWriterNodes_ > 0)
  /\ n \notin DOMAIN ws.writers_

\* ================================================================= tryMove
kPrevDirection == 0
kNextDirection == 1

\* curNode->next_in_graph[direction]; 0 past either end of the list.
next_in_graph(ord, n, direction) ==
  LET p == IF direction = kNextDirection THEN Pos(ord, n) + 1 ELSE Pos(ord, n) - 1
  IN IF p \in 1..Len(ord) THEN ord[p] ELSE 0

\* buildWorkingSet that absorbs every node it passes, dependent or not.
RECURSIVE buildWorkingSet_absorbAll(_, _, _, _, _, _, _)
buildWorkingSet_absorbAll(L, T, N, ord, curNode, movePoint, direction) ==
  IF curNode = movePoint THEN L
  ELSE buildWorkingSet_absorbAll(
         [ws |-> WorkingSet_add(L.ws, T, N, curNode), asked |-> L.asked \cup {curNode}],
         T, N, ord, next_in_graph(ord, curNode, direction), movePoint, direction)

\* Step 1 of tryMove: walk from toMove toward movePoint building the working
\* set. L is [ws, asked]: the working set and the nodes getWriters was
\* called on.
RECURSIVE buildWorkingSet(_, _, _, _, _, _, _)
buildWorkingSet(L, T, N, ord, curNode, movePoint, direction) ==
  IF curNode = movePoint THEN L
  ELSE
    LET step(asked) ==
          IF dependsOn(L.ws, T, N, ord, curNode)
          THEN [ws |-> WorkingSet_add(L.ws, T, N, curNode),
                asked |-> asked \cup {curNode}]
          ELSE [ws |-> L.ws, asked |-> asked]
    IN buildWorkingSet(step(L.asked
                            \cup (IF dependsOnAsksWriters(L.ws, T, N, ord, curNode)
                                  THEN {curNode} ELSE {})),
                       T, N, ord, next_in_graph(ord, curNode, direction),
                       movePoint, direction)

\* move that puts the node at the end (AFTER) or the start (BEFORE) of the
\* list instead of next to movePoint.
move_toListEnd(ord, toMove, movePoint, moveSide) ==
  IF moveSide = "BEFORE" THEN <<toMove>> \o RemoveNode(ord, toMove)
  ELSE Append(RemoveNode(ord, toMove), toMove)

move(ord, toMove, movePoint, moveSide) ==
  IF moveSide = "BEFORE" THEN moveBefore(ord, toMove, movePoint)
  ELSE moveAfter(ord, toMove, movePoint)

\* Step 3: move the nodes of the list one after the other next to curNode.
RECURSIVE moveAll(_, _, _, _, _)
moveAll(ord, wsNodes, i, curNode, moveSide) ==
  IF i > Len(wsNodes) THEN ord
  ELSE moveAll(move(ord, wsNodes[i], curNode, moveSide), wsNodes, i + 1,
               wsNodes[i], moveSide)

\* executeMove that, when toMove is split from its dependencies, moves the
\* dependencies but not toMove.
executeMove_forgetsMover(ord, toMove, movePoint, moveSide, wsNodes, splitToMoveAndDeps) ==
  LET reversed == IF moveSide = "BEFORE" THEN "AFTER" ELSE "BEFORE"
  IN IF splitToMoveAndDeps
     THEN moveAll(ord, wsNodes, 1, movePoint, reversed)
     ELSE moveAll(ord, wsNodes, 1, movePoint, moveSide)

\* Step 3 of tryMove: execute the move.
executeMove(ord, toMove, movePoint, moveSide, wsNodes, splitToMoveAndDeps) ==
  LET reversed == IF moveSide = "BEFORE" THEN "AFTER" ELSE "BEFORE"
  IN IF splitToMoveAndDeps
     THEN moveAll(move(ord, toMove, movePoint, moveSide), wsNodes, 1, movePoint, reversed)
     ELSE moveAll(ord, wsNodes, 1, movePoint, moveSide)

\* tryMoveExit that has executed the move before it finds the working set
\* blocked.
tryMoveExit_movesThenFails(blocked, dryRun, ord, moved) ==
  IF blocked THEN [ret |-> FALSE, order |-> IF dryRun THEN ord ELSE moved]
  ELSE IF dryRun THEN [ret |-> TRUE, order |-> ord]
  ELSE [ret |-> TRUE, order |-> moved]

\* tryMoveExit that ignores dryRun.
tryMoveExit_ignoresDryRun(blocked, dryRun, ord, moved) ==
  IF blocked THEN [ret |-> FALSE, order |-> ord]
  ELSE [ret |-> TRUE, order |-> moved]

\* The exits of tryMove after the working set is built: `blocked` is
\* workingSet.dependsOn(movePoint), `moved` the node list step 3 produces.
tryMoveExit(blocked, dryRun, ord, moved) ==
  IF blocked THEN [ret |-> FALSE, order |-> ord]
  ELSE IF dryRun THEN [ret |-> TRUE, order |-> ord]
  ELSE [ret |-> TRUE, order |-> moved]

\* tryMove's working set when the mover is never split from its dependents.
tryMoveWorkingSet_neverSplits(C, N, ord, toMove, movePoint, moveSide) ==
  LET L0 == [ws |-> WorkingSet_add(EmptyWorkingSet, C, N, toMove), asked |-> {toMove}]
      walk(direction) ==
        buildWorkingSet(L0, C, N, ord, next_in_graph(ord, toMove, direction),
                        movePoint, direction)
      result(workingSet, splitToMoveAndDeps, asked) ==
        [ws |-> workingSet, split |-> splitToMoveAndDeps,
         asked |-> asked
                   \cup (IF dependsOnAsksWriters(workingSet, C, N, ord, movePoint)
                         THEN {movePoint} ELSE {})]
      erase(L, splitToMoveAndDeps) ==
        result(IF splitToMoveAndDeps THEN eraseMover(L.ws, C, N) ELSE L.ws,
               splitToMoveAndDeps, L.asked)
  IN erase(walk(IF isAfter(N, ord, toMove, movePoint)
                THEN kPrevDirection ELSE kNextDirection),
           FALSE)

\* The working set tryMove has built when it decides (after eraseMover).
tryMoveWorkingSet(C, N, ord, toMove, movePoint, moveSide) ==
  LET L0 == [ws |-> WorkingSet_add(EmptyWorkingSet, C, N, toMove), asked |-> {toMove}]
      walk(direction) ==
        buildWorkingSet(L0, C, N, ord, next_in_graph(ord, toMove, direction),
                        movePoint, direction)
      result(workingSet, splitToMoveAndDeps, asked) ==
        [ws |-> workingSet, split |-> splitToMoveAndDeps,
         asked |-> asked
                   \cup (IF dependsOnAsksWriters(workingSet, C, N, ord, movePoint)
                         THEN {movePoint} ELSE {})]
      erase(L, splitToMoveAndDeps) ==
        result(IF splitToMoveAndDeps THEN eraseMover(L.ws, C, N) ELSE L.ws,
               splitToMoveAndDeps, L.asked)
  IN erase(walk(IF isAfter(N, ord, toMove, movePoint)
                THEN kPrevDirection ELSE kNextDirection),
           \/ (moveSide = "BEFORE" /\ isBefore(N, ord, toMove, movePoint))
           \/ (moveSide = "AFTER" /\ isAfter(N, ord, toMove, movePoint)))

\* tryMove(toMove, movePoint, moveSide, dryRun): what it returns, the node
\* list and the tracker afterwards. The queries are evaluated on C, the
\* tracker with its cache built, which is what the first getWrites on a
\* tracked value makes of T; T1 is the tracker the call leaves behind.
tryMove(T, N, ord, toMove, movePoint, moveSide, dryRun) ==
  IF toMove = movePoint THEN [ret |-> TRUE, order |-> ord, tracker |-> T]
  ELSE
    LET decide(C, W) ==
          [tracker |-> IF \E n \in W.asked : \E v \in NodeValues(N, n) :
                            contains(T, v) /\ useCache_
                       THEN C ELSE T]
          @@ tryMoveExit(dependsOn(W.ws, C, N, ord, movePoint), dryRun, ord,
                         executeMove(ord, toMove, movePoint, moveSide,
                                     W.ws.nodes_, W.split))
        build(C) == decide(C, tryMoveWorkingSet(C, N, ord, toMove, movePoint, moveSide))
    IN build(cache(T))

\* ================================================================= actions
NoCall == [op |-> "none", n |-> 0, movePoint |-> 0, ret |-> FALSE, before |-> <<>>]

Init ==
  /\ nodes = EmptyFn
  /\ order = <<>>
  /\ valueType = [v \in AllValues |-> "Tensor"]
  /\ aliasTracker = NewTracker
  /\ wildcardNodes = {}
  /\ pc = "start"
  /\ moves = 0
  /\ last = NoCall

\* analyze(graph), up to the walk of the block: the inputs of one type are
\* made to alias each other.
AnalyzeGraphInputs ==
  /\ pc = "start"
  /\ aliasTracker' = makeAllAlias(aliasTracker, GraphInputs)
  /\ pc' = "analyze"
  /\ UNCHANGED <<nodes, order, valueType, wildcardNodes, moves, last>>

\* analyze(Node*) on the next node of the top block; the node the walk
\* finds there is drawn from the node shapes.
AnalyzeTopNode ==
  /\ pc = "analyze"
  /\ Len(order) < MaxNodes
  /\ \E shape \in NodeShapes(Len(order) + 1, order) :
       \E D \in {analyzeNode([T |-> aliasTracker, W |-> wildcardNodes],
                              nodes @@ shape, Len(order) + 1)} :
          /\ nodes' = nodes @@ shape
          /\ order' = Append(order, Len(order) + 1)
          /\ aliasTracker' = D.T
          /\ wildcardNodes' = D.W
          /\ pc' = IF D.T.thrown THEN "error" ELSE "analyze"
  /\ UNCHANGED <<valueType, moves, last>>

\* The walk reaches the end of the block: the AliasDb is constructed.
FinishAnalysis ==
  /\ pc = "analyze"
  /\ Len(order) >= 1
  /\ pc' = "done"
  /\ UNCHANGED <<nodes, order, valueType, aliasTracker, wildcardNodes, moves, last>>

Mover(op, moveSide, dryRun) ==
  /\ pc = "done"
  /\ moves < MaxMoves
  /\ \E n \in SeqToSet(order), movePoint \in SeqToSet(order) :
       \E r \in {tryMove(aliasTracker, nodes, order, n, movePoint, moveSide, dryRun)} :
          /\ order' = r.order
          /\ aliasTracker' = r.tracker
          /\ last' = [op |-> op, n |-> n, movePoint |-> movePoint, ret |-> r.ret,
                      before |-> order]
  /\ moves' = moves + 1
  /\ UNCHANGED <<nodes, valueType, wildcardNodes, pc>>

MoveAfterTopologicallyValid == Mover("moveAfter", "AFTER", FALSE)
MoveBeforeTopologicallyValid == Mover("moveBefore", "BEFORE", FALSE)
CouldMoveAfterTopologically == Mover("couldMoveAfter", "AFTER", TRUE)
CouldMoveBeforeTopologically == Mover("couldMoveBefore", "BEFORE", TRUE)

Next ==
  \/ AnalyzeGraphInputs
  \/ AnalyzeTopNode
  \/ FinishAnalysis
  \/ MoveAfterTopologicallyValid
  \/ MoveBeforeTopologicallyValid
  \/ CouldMoveAfterTopologically
  \/ CouldMoveBeforeTopologically

Spec == Init /\ [][Next]_vars

\* ------------------------------------------- the AliasTracker on its own
\* The tracker driven directly through its mutators, in any order, on a
\* small set of values.
TrackerValues == 1..MaxTrackerValues

TrackerInit ==
  /\ nodes = EmptyFn
  /\ order = <<>>
  /\ valueType = [v \in AllValues |-> "Tensor"]
  /\ aliasTracker = NewTracker
  /\ wildcardNodes = {}
  /\ pc = "tracker"
  /\ moves = 0
  /\ last = NoCall

MakeFreshValue ==
  /\ pc = "tracker"
  /\ Len(aliasTracker.elements_) < MaxElements
  /\ \E v \in TrackerValues : aliasTracker' = makeFreshValue(aliasTracker, v)
  /\ UNCHANGED <<nodes, order, valueType, wildcardNodes, pc, moves, last>>

MakePointerTo ==
  /\ pc = "tracker"
  /\ \E v \in TrackerValues, to \in TrackerValues :
       /\ Len(makePointerTo(aliasTracker, v, to).elements_) <= MaxElements
       /\ aliasTracker' = makePointerTo(aliasTracker, v, to)
  /\ UNCHANGED <<nodes, order, valueType, wildcardNodes, pc, moves, last>>

SetWildcard ==
  /\ pc = "tracker"
  /\ \E v \in TrackerValues : aliasTracker' = setWildcard(aliasTracker, v)
  /\ UNCHANGED <<nodes, order, valueType, wildcardNodes, pc, moves, last>>

TrackerNext ==
  \/ MakeFreshValue
  \/ MakePointerTo
  \/ SetWildcard

TrackerSpec == TrackerInit /\ [][TrackerNext]_vars

\* ------------------------------- the AliasTracker with writes and queries
\* The tracker driven through makeFreshValue, makePointerTo, registerWrite
\* and the write queries, in any order.
TrackerNodes == 1..MaxTrackerNodes

CacheValues == 1..MaxCacheValues

CacheInit ==
  /\ nodes = EmptyFn
  /\ order = <<>>
  /\ valueType = [v \in AllValues |-> "Tensor"]
  /\ aliasTracker = NewTracker
  /\ wildcardNodes = {}
  /\ pc = "cache"
  /\ moves = 0
  /\ last = NoCall

\* elementToSet_.at(map_.at(v)) in hasWritersCached / getWritersCached finds
\* no entry for v's Element and throws std::out_of_range.
cacheMisses(T, v) ==
  /\ contains(T, v)
  /\ useCache_
  /\ T.map_[v] \notin DOMAIN cache(T).elementToSet_

\* makeFreshValue on a value that has no Element yet.
TrackFreshValue ==
  /\ pc = "cache"
  /\ \E v \in CacheValues :
       /\ ~contains(aliasTracker, v)
       /\ aliasTracker' = makeFreshValue(aliasTracker, v)
  /\ UNCHANGED <<nodes, order, valueType, wildcardNodes, pc, moves, last>>

PointTo ==
  /\ pc = "cache"
  /\ \E v \in CacheValues, to \in CacheValues :
       aliasTracker' = makePointerTo(aliasTracker, v, to)
  /\ UNCHANGED <<nodes, order, valueType, wildcardNodes, pc, moves, last>>

RegisterWrite ==
  /\ pc = "cache"
  /\ aliasTracker.numWrites_ < MaxWrites
  /\ \E v \in CacheValues, n \in TrackerNodes :
       \E T \in {registerWrite(aliasTracker, v, n)} :
         /\ aliasTracker' = T
         /\ pc' = IF T.thrown THEN "error" ELSE "cache"
  /\ UNCHANGED <<nodes, order, valueType, wildcardNodes, moves, last>>

\* getWrites(v): the call throws when the cached lookup misses, and
\* otherwise returns the writers and leaves the cache built.
GetWrites ==
  /\ pc = "cache"
  /\ \E v \in CacheValues :
       IF cacheMisses(aliasTracker, v)
       THEN /\ aliasTracker' = cache(aliasTracker)
            /\ pc' = "error"
            /\ last' = [op |-> "getWrites", n |-> v, movePoint |-> 0, ret |-> FALSE,
                        before |-> <<>>]
       ELSE /\ aliasTracker' = getWritesEffect(aliasTracker, v)
            /\ pc' = "cache"
            /\ last' = [op |-> "getWrites", n |-> v, movePoint |-> 0,
                        ret |-> getWrites(aliasTracker, v), before |-> <<>>]
  /\ UNCHANGED <<nodes, order, valueType, wildcardNodes, moves>>

\* hasWriters(v): the cached lookup is made only for a tracked value that
\* is no wildcard when no node has written to a wildcard.
HasWriters ==
  /\ pc = "cache"
  /\ \E v \in CacheValues :
       IF /\ ~isWildcard(aliasTracker, v) /\ aliasTracker.wildcardWriters_ = {}
          /\ cacheMisses(aliasTracker, v)
       THEN /\ aliasTracker' = cache(aliasTracker)
            /\ pc' = "error"
            /\ last' = [op |-> "hasWriters", n |-> v, movePoint |-> 0, ret |-> FALSE,
                        before |-> <<>>]
       ELSE /\ aliasTracker' = hasWritersEffect(aliasTracker, v)
            /\ pc' = "cache"
            /\ last' = [op |-> "hasWriters", n |-> v, movePoint |-> 0,
                        ret |-> hasWriters(aliasTracker, v), before |-> <<>>]
  /\ UNCHANGED <<nodes, order, valueType, wildcardNodes, moves>>

CacheNext ==
  \/ TrackFreshValue
  \/ PointTo
  \/ RegisterWrite
  \/ GetWrites
  \/ HasWriters

CacheSpec == CacheInit /\ [][CacheNext]_vars

\* ------------------------------------------- graphs with scalar values
\* The typings of the graph's values: graph inputs and the values made
\* inside If blocks are Tensors, the output of a top-block node is a Tensor
\* or an int.
Typings ==
  {ty \in [AllValues -> {"Tensor", "int"}] :
     \A v \in AllValues : ty[v] = "int" => v \in {OutValue(t) : t \in 1..MaxNodes}}

\* The analysis of a graph whose values have any of these typings.
TypedInit ==
  /\ nodes = EmptyFn
  /\ order = <<>>
  /\ valueType \in Typings
  /\ aliasTracker = NewTracker
  /\ wildcardNodes = {}
  /\ pc = "start"
  /\ moves = 0
  /\ last = NoCall

TypedNext ==
  \/ AnalyzeGraphInputs
  \/ AnalyzeTopNode
  \/ FinishAnalysis

TypedSpec == TypedInit /\ [][TypedNext]_vars

\* ------------------------------------ graphs of registered operators
\* analyze(Node*) on the next node of the top block, drawn from the shapes
\* of registered operators; the node analysed is recorded in `last`.
AnalyzeSchemaNode ==
  /\ pc = "analyze"
  /\ Len(order) < MaxNodes
  /\ \E shape \in SchemaShapes(Len(order) + 1, order) :
       \E D \in {analyzeNode([T |-> aliasTracker, W |-> wildcardNodes],
                              nodes @@ shape, Len(order) + 1)} :
          /\ nodes' = nodes @@ shape
          /\ order' = Append(order, Len(order) + 1)
          /\ aliasTracker' = D.T
          /\ wildcardNodes' = D.W
          /\ pc' = IF D.T.thrown THEN "error" ELSE "analyze"
          /\ last' = [op |-> "analyze", n |-> Len(order) + 1, movePoint |-> 0,
                      ret |-> ~D.T.thrown, before |-> order]
  /\ UNCHANGED <<valueType, moves>>

SchemaNext ==
  \/ AnalyzeGraphInputs
  \/ AnalyzeSchemaNode
  \/ FinishAnalysis

SchemaSpec == TypedInit /\ [][SchemaNext]_vars

\* ------------------------------------------------- graphs with a loop
\* The scalars of the loops are ints, every other value a Tensor.
LoopInit ==
  /\ nodes = EmptyFn
  /\ order = <<>>
  /\ valueType = [v \in AllValues \cup LoopValues |->
                    IF v \in LoopScalars THEN "int" ELSE "Tensor"]
  /\ aliasTracker = NewTracker
  /\ wildcardNodes = {}
  /\ pc = "start"
  /\ moves = 0
  /\ last = NoCall

\* analyze(Node*) on a prim::Loop standing next in the top block.
AnalyzeLoopNode ==
  /\ pc = "analyze"
  /\ Len(order) < MaxNodes
  /\ \A n \in DOMAIN nodes : nodes[n].kind # "prim::Loop"
  /\ \E shape \in LoopShapes(Len(order) + 1, order) :
       \E D \in {analyzeNode([T |-> aliasTracker, W |-> wildcardNodes],
                              nodes @@ shape, Len(order) + 1)} :
          /\ nodes' = nodes @@ shape
          /\ order' = Append(order, Len(order) + 1)
          /\ aliasTracker' = D.T
          /\ wildcardNodes' = D.W
          /\ pc' = IF D.T.thrown THEN "error" ELSE "analyze"
  /\ UNCHANGED <<valueType, moves, last>>

LoopNext ==
  \/ AnalyzeGraphInputs
  \/ AnalyzeTopNode
  \/ AnalyzeLoopNode
  \/ FinishAnalysis

LoopSpec == LoopInit /\ [][LoopNext]_vars

\* ================================================================== properties
MoveOps == {"moveAfter", "moveBefore"}
CouldOps == {"couldMoveAfter", "couldMoveBefore"}
SideOf(op) == IF op \in {"moveAfter", "couldMoveAfter"} THEN "AFTER" ELSE "BEFORE"

TopNodes == SeqToSet(order)

\* n is directly after / before movePoint in the node list.
DirectlyAfter(ord, n, movePoint) == Pos(ord, n) = Pos(ord, movePoint) + 1
DirectlyBefore(ord, n, movePoint) == Pos(ord, n) + 1 = Pos(ord, movePoint)

OnRequestedSide(ord, n, movePoint, side) ==
  IF side = "AFTER" THEN DirectlyAfter(ord, n, movePoint)
  ELSE DirectlyBefore(ord, n, movePoint)

Dependent(T, N, ord, a, b) ==
  \/ dependsOn(WorkingSet_add(EmptyWorkingSet, T, N, a), T, N, ord, b)
  \/ dependsOn(WorkingSet_add(EmptyWorkingSet, T, N, b), T, N, ord, a)

\* p is a reordering of ord that keeps every dependent pair in its relative
\* order and has n next to movePoint on the requested side.
ValidPlacement(T, N, ord, p, n, movePoint, side) ==
  /\ OnRequestedSide(p, n, movePoint, side)
  /\ \A a \in SeqToSet(ord), b \in SeqToSet(ord) :
       (Pos(ord, a) < Pos(ord, b) /\ Dependent(T, N, ord, a, b))
         => Pos(p, a) < Pos(p, b)

MovePossible(T, N, ord, n, movePoint, side) ==
  \E p \in Orderings(SeqToSet(ord)) : ValidPlacement(T, N, ord, p, n, movePoint, side)

\* C2: moveAfterTopologicallyValid / moveBeforeTopologicallyValid return
\* false only when no reordering of the block keeps every dependent pair in
\* its original relative order with n next to movePoint on the requested
\* side; whenever such a reordering exists the call returns true and has
\* placed n there.
C2_FalseOnlyWhenImpossible ==
  (last.op \in MoveOps) =>
    LET C == cache(aliasTracker)
        possible == MovePossible(C, nodes, last.before, last.n, last.movePoint,
                                 SideOf(last.op))
    IN /\ ~last.ret => ~possible
       /\ possible => (last.ret /\ OnRequestedSide(order, last.n, last.movePoint,
                                                   SideOf(last.op)))

\* A refused moveAfter of a node that lies before movePoint with a node in
\* between, where indeed no reordering places n directly after movePoint.
C2_Witness ==
  /\ last.op = "moveAfter" /\ ~last.ret
  /\ Pos(last.before, last.n) + 1 < Pos(last.before, last.movePoint)
  /\ ~MovePossible(cache(aliasTracker), nodes, last.before, last.n, last.movePoint,
                   "AFTER")
  /\ order = last.before

\* ---- C3
\* The nodes nested in top-block node t (t itself and the nodes of its
\* blocks), return nodes left out.
NestedNodes(N, t) == {m \in DOMAIN N : TopOf(N, m) = t /\ N[m].kind # "prim::Return"}

WrittenBy(T, N, t) ==
  UNION {AliasDb_getWrites(T, N, m) : m \in NestedNodes(N, t)}

TouchedBy(N, t) ==
  {v \in UNION {NodeValues(N, m) : m \in NestedNodes(N, t)} : shouldAnnotate(v)}

\* a and b may be the same memory: the same value, a wildcard on either
\* side, or two values that reach a common element along pointsTo.
MayShareMemory(T, a, b) ==
  \/ a = b
  \/ isWildcard(T, a) \/ isWildcard(T, b)
  \/ /\ contains(T, a) /\ contains(T, b)
     /\ bfs(T, T.map_[a], "POINTS_TO") \cap bfs(T, T.map_[b], "POINTS_TO") # {}

MutabilityConflict(T, N, w, r) ==
  /\ w # r
  /\ \E a \in WrittenBy(T, N, w), b \in TouchedBy(N, r) : MayShareMemory(T, a, b)

SameRelativeOrder(ord1, ord2, a, b) ==
  (Pos(ord1, a) < Pos(ord1, b)) <=> (Pos(ord2, a) < Pos(ord2, b))

\* C3: after a successful move no mutability dependency is inverted: every
\* node W that writes a value and every node R that reads or writes a value
\* that may alias it (as its own input or output, inside one of its nested
\* blocks, or through a wildcard) are in the same relative order as before.
C3_NoMutabilityInversion ==
  (last.op \in MoveOps /\ last.ret) =>
    \A w \in TopNodes, r \in TopNodes :
      MutabilityConflict(aliasTracker, nodes, w, r)
        => SameRelativeOrder(last.before, order, w, r)

\* ---- C4
\* The values used by top-block node t, uses inside its blocks (and by their
\* return nodes) included.
UsedBy(N, t) == UNION {SeqToSet(N[m].inputs) : m \in {x \in DOMAIN N : TopOf(N, x) = t}}

ProducerFirst(N, ord) ==
  \A p \in SeqToSet(ord), u \in SeqToSet(ord) :
    (p # u /\ SeqToSet(N[p].outputs) \cap UsedBy(N, u) # {}) => Pos(ord, p) < Pos(ord, u)

\* C4: after a successful move every node of the block is still positioned
\* after the producer of every value it uses, uses inside its nested blocks
\* counted as uses by the node.
C4_DataDependenciesKept ==
  (last.op \in MoveOps /\ last.ret) => ProducerFirst(nodes, order)

\* A successful move, which changed the node list, of a node that has a
\* consumer in the block.
C4_Witness ==
  /\ last.op \in MoveOps /\ last.ret /\ order # last.before
  /\ \E u \in TopNodes :
       /\ u # last.n
       /\ SeqToSet(nodes[last.n].outputs) \cap UsedBy(nodes, u) # {}
  /\ ProducerFirst(nodes, order)

\* ---- C5
\* C5: when the working set still depends on movePoint tryMove returns
\* false and the node list is exactly what it was before the call, with
\* dryRun set or not.
C5_InfeasibleLeavesOrder ==
  (last.op \in MoveOps \cup CouldOps /\ ~last.ret) => order = last.before

\* A refused (not dry-run) move whose working set absorbed a node.
C5_Witness ==
  /\ last.op \in MoveOps /\ ~last.ret
  /\ Pos(last.before, last.n) + 1 < Pos(last.before, last.movePoint)
  /\ order = last.before

\* ---- C6
\* What the tracker knows about aliases and writes (the write cache is
\* derived from it).
AliasFacts(T) ==
  [elements_ |-> T.elements_, map_ |-> T.map_, wildcards_ |-> T.wildcards_,
   wildcardWriters_ |-> T.wildcardWriters_, numWrites_ |-> T.numWrites_]

\* C6: couldMoveAfterTopologically / couldMoveBeforeTopologically change
\* neither the node list nor the alias and write facts, and return the
\* boolean the corresponding move returns from the same state.
C6_CouldMoveIsPure ==
  [][(last'.op \in CouldOps /\ moves' = moves + 1) =>
       /\ order' = order
       /\ nodes' = nodes
       /\ wildcardNodes' = wildcardNodes
       /\ AliasFacts(aliasTracker') = AliasFacts(aliasTracker)
       /\ last'.ret = tryMove(aliasTracker, nodes, order, last'.n, last'.movePoint,
                              SideOf(last'.op), FALSE).ret]_vars

\* A dry run that returned true where the move itself would change the list.
C6_Witness ==
  /\ last.op = "couldMoveAfter" /\ last.ret
  /\ order = last.before
  /\ tryMove(aliasTracker, nodes, order, last.n, last.movePoint, "AFTER", FALSE).order
       # order

\* ---- C7
\* The nodes tryMove moves: toMove and the nodes it absorbed.
MovedNodes(T, N, ord, n, movePoint, side) ==
  IF n = movePoint THEN {}
  ELSE {n} \cup SeqToSet(tryMoveWorkingSet(cache(T), N, ord, n, movePoint, side).ws.nodes_)

Span(ord, n, movePoint) ==
  {x \in SeqToSet(ord) :
     /\ Pos(ord, x) >= (IF Pos(ord, n) < Pos(ord, movePoint) THEN Pos(ord, n)
                        ELSE Pos(ord, movePoint))
     /\ Pos(ord, x) <= Max(Pos(ord, n), Pos(ord, movePoint))}

\* C7: a successful move only moves nodes between n and movePoint: the nodes
\* outside the span from n to movePoint keep their place, and movePoint and
\* the nodes of the span that were not absorbed into the working set keep
\* their relative order among themselves and to the nodes outside.
C7_OnlySpanMoves ==
  (last.op \in MoveOps /\ last.ret) =>
    LET moved == MovedNodes(aliasTracker, nodes, last.before, last.n, last.movePoint,
                            SideOf(last.op))
        span == Span(last.before, last.n, last.movePoint)
    IN /\ moved \subseteq span
       /\ last.movePoint \notin moved \/ last.n = last.movePoint
       /\ \A x \in TopNodes \ span : Pos(order, x) = Pos(last.before, x)
       /\ \A x \in TopNodes \ moved, y \in TopNodes \ moved :
            SameRelativeOrder(last.before, order, x, y)
       /\ SeqToSet(order) = SeqToSet(last.before) /\ Len(order) = Len(last.before)

\* A successful move that changed the node list of a block of three nodes,
\* one of them outside the span from n to movePoint.
C7_Witness ==
  /\ last.op \in MoveOps /\ last.ret /\ order # last.before
  /\ Len(order) = 3
  /\ TopNodes \ Span(last.before, last.n, last.movePoint) # {}

\* ---- C8
\* The values of the graph: its inputs and the outputs of its nodes.
GraphValues(N) ==
  SeqToSet(GraphInputs) \cup UNION {SeqToSet(N[n].outputs) : n \in DOMAIN N}

HasPointerEdge(T, b, a) ==
  /\ contains(T, a) /\ contains(T, b)
  /\ T.map_[a] \in T.elements_[T.map_[b]].pointsTo

\* C8: after analysis, for all annotatable values a and b: if some node is
\* registered as writing to a and b has a pointer edge to a, hasWriters(b)
\* is true.
C8_WriteVisibleThroughAlias ==
  (pc = "done") =>
    \A a \in GraphValues(nodes), b \in GraphValues(nodes) :
      ( /\ shouldAnnotate(a) /\ shouldAnnotate(b)
        /\ \E n \in DOMAIN nodes : writesTo(aliasTracker, n, a)
        /\ HasPointerEdge(aliasTracker, b, a) )
      => hasWriters(aliasTracker, b)

\* ---- C9
\* C9: after analysis, if a node has registered a write to a wildcard value,
\* hasWriters(v) is true for every annotatable value v of the graph and
\* hasWriters(n) for every node with such a value among its inputs or
\* outputs.
C9_WildcardWriteReachesAll ==
  (pc = "done" /\ aliasTracker.wildcardWriters_ # {}) =>
    /\ \A v \in GraphValues(nodes) : shouldAnnotate(v) => hasWriters(aliasTracker, v)
    /\ \A n \in DOMAIN nodes :
         (\E v \in NodeValues(nodes, n) : shouldAnnotate(v))
           => AliasDb_hasWriters(aliasTracker, nodes, n)

\* ---- C10
\* v is graph input g or derived from it by pointer edges (a view of g, a
\* view of a view, ...): v reaches g along pointsTo.
DerivedFrom(T, v, g) ==
  \/ v = g
  \/ /\ contains(T, v) /\ contains(T, g)
     /\ T.map_[g] \in bfs(T, T.map_[v], "POINTS_TO")

\* C10: after analysis hasUntrackedEffects(n) is true for every node n that
\* writes to a value that may alias a graph input: the input itself or a
\* value derived from it by pointer edges.
C10_InputAliasWriteIsUntracked ==
  (pc = "done") =>
    \A n \in DOMAIN nodes :
      (\E v \in AliasDb_getWrites(aliasTracker, nodes, n) :
         \E i \in 1..Len(GraphInputs) :
           shouldAnnotate(GraphInputs[i]) /\ DerivedFrom(aliasTracker, v, GraphInputs[i]))
      => hasUntrackedEffects(aliasTracker, nodes, order, wildcardNodes, n) = {TRUE}

\* ---- C11
\* Tracked values a and b are in a common alias set: they reach a common
\* element along pointsTo.
InCommonAliasSet(T, a, b) ==
  /\ contains(T, a) /\ contains(T, b)
  /\ bfs(T, T.map_[a], "POINTS_TO") \cap bfs(T, T.map_[b], "POINTS_TO") # {}

\* Some node positioned before n writes to an alias set of one of n's tracked
\* inputs or outputs: to a value in a common alias set with it, or to a
\* wildcard (which may be any value).
WriterBefore(T, N, ord, n) ==
  \E w \in DOMAIN N, v \in NodeValues(N, n) :
    /\ isBeforeSameGraph(N, ord, w, n)
    /\ contains(T, v)
    /\ \/ w \in T.wildcardWriters_
       \/ \E a \in DOMAIN T.map_ :
            w \in T.elements_[T.map_[a]].writers /\ InCommonAliasSet(T, a, v)

QueryAnswers(T, N, ord, W) ==
  [getAliases |-> [v \in GraphValues(N) |-> getAliases(T, v)],
   getWrites |-> [m \in DOMAIN N |-> AliasDb_getWrites(T, N, m)],
   hasWrites |-> [m \in DOMAIN N |-> hasWrites(T, N, m)],
   hasWriters |-> [m \in DOMAIN N |-> AliasDb_hasWriters(T, N, m)],
   hasWritersBefore |-> [m \in DOMAIN N |-> hasWritersBefore(T, N, ord, m)],
   hasUntrackedEffects |-> [m \in DOMAIN N |-> hasUntrackedEffects(T, N, ord, W, m)]]

\* C12: a successful moveAfterTopologicallyValid / moveBeforeTopologicallyValid
\* leaves the answer of every read-only query (getAliases, getWrites,
\* hasWrites, hasWriters, hasWritersBefore, hasUntrackedEffects) for every
\* value and node as it was before the move.
C12_MovesKeepQueryAnswers ==
  [][(last'.op \in MoveOps /\ last'.ret /\ moves' = moves + 1) =>
       QueryAnswers(aliasTracker', nodes', order', wildcardNodes')
         = QueryAnswers(aliasTracker, nodes, order, wildcardNodes)]_vars

\* ---- C13
IfNodes(N) == {n \in DOMAIN N : N[n].kind = "prim::If"}

\* The i-th output of block b of If node n.
BranchOutput(N, n, b, i) == N[N[n].blocks[b].ret].inputs[i]

C14_MayAliasSymmetric ==
  \A a \in DOMAIN aliasTracker.map_, b \in DOMAIN aliasTracker.map_ :
    (b \in getAliases(aliasTracker, a)) <=> (a \in getAliases(aliasTracker, b))

\* Two values that point to a third one and not to each other alias each
\* other.
C14_Witness ==
  /\ pc = "tracker"
  /\ \E a \in TrackerValues, b \in TrackerValues, r \in TrackerValues :
       /\ a # b /\ a # r /\ b # r
       /\ {a, b, r} \subseteq DOMAIN aliasTracker.map_
       /\ aliasTracker.elements_[aliasTracker.map_[a]].pointsTo = {aliasTracker.map_[r]}
       /\ aliasTracker.elements_[aliasTracker.map_[b]].pointsTo = {aliasTracker.map_[r]}
       /\ aliasTracker.elements_[aliasTracker.map_[r]].pointsTo = {}
       /\ b \in getAliases(aliasTracker, a) /\ a \in getAliases(aliasTracker, b)

\* ---- C18
\* The pointer edges added so far, as unordered pairs of elements.
PointerEdges(T) ==
  UNION {{{e, f} : f \in T.elements_[e].pointsTo} : e \in 1..Len(T.elements_)}

\* The elements connected to those of S by pointer edges, directly or
\* through other elements.
RECURSIVE ConnectedTo(_, _)
ConnectedTo(T, S) ==
  LET more == S \cup {e \in 1..Len(T.elements_) :
                       \E f \in S : {e, f} \in PointerEdges(T)}
  IN IF more = S THEN S ELSE ConnectedTo(T, more)

\* C18: two distinct values that each have an Element, with no pointer edge
\* connecting them directly or through other elements, are not in each
\* other's getAliases set.
C18_UnrelatedFreshDoNotAlias ==
  \A a \in DOMAIN aliasTracker.map_, b \in DOMAIN aliasTracker.map_ :
    (a # b /\ aliasTracker.map_[b] \notin ConnectedTo(aliasTracker, {aliasTracker.map_[a]}))
      => /\ b \notin getAliases(aliasTracker, a)
         /\ a \notin getAliases(aliasTracker, b)

\* Two values with fresh Elements and no edges between them, next to a
\* third value that one of them points to.
C18_Witness ==
  /\ pc = "tracker"
  /\ \E a \in TrackerValues, b \in TrackerValues, c \in TrackerValues :
       /\ a # b /\ {a, b, c} \subseteq DOMAIN aliasTracker.map_
       /\ aliasTracker.map_[c] \in aliasTracker.elements_[aliasTracker.map_[a]].pointsTo
       /\ aliasTracker.map_[b] \notin ConnectedTo(aliasTracker, {aliasTracker.map_[a]})
       /\ b \notin getAliases(aliasTracker, a)
       /\ c \in getAliases(aliasTracker, a)

\* ---- C15
\* C15: before the first node is visited and in the final AliasDb every
\* graph input of annotatable type is marked as a wildcard.
C15_GraphInputsAreWildcards ==
  (pc \in {"analyze", "done"}) =>
    \A i \in 1..Len(GraphInputs) :
      shouldAnnotate(GraphInputs[i]) => isWildcard(aliasTracker, GraphInputs[i])

\* ---- C16
\* C16: after analysis every annotatable input of a prim::PythonOp node has
\* a writer (hasWriters is true for it and the node is recorded as writing
\* it) and every output of the node is a wildcard.
C16_CustomOpIsPessimistic ==
  (pc = "done") =>
    \A n \in DOMAIN nodes :
      (nodes[n].kind = "prim::PythonOp") =>
        /\ \A v \in SeqToSet(nodes[n].inputs) :
             shouldAnnotate(v) => /\ hasWriters(aliasTracker, v)
                                  /\ writesTo(aliasTracker, n, v)
        /\ \A v \in SeqToSet(nodes[n].outputs) : isWildcard(aliasTracker, v)

\* ---- C17
\* The output out of a node aliases the value x: x is in getAliases(out),
\* or x is a wildcard and out is one as well.
OutputAliases(T, out, x) ==
  \/ contains(T, x) /\ x \in getAliases(T, out)
  \/ isWildcard(T, x) /\ isWildcard(T, out)

\* C17: after analysis, for every in-place node with schema
\* (Tensor(a!) self) -> Tensor(a) applied to an annotatable value x (fresh,
\* derived from a graph input, or a wildcard), the output aliases x and
\* hasWriters(x) is true.
C17_InPlaceOutputAliasesWrittenInput ==
  (pc = "done") =>
    \A n \in DOMAIN nodes :
      (nodes[n].kind = "aten::relu_" /\ shouldAnnotate(nodes[n].inputs[1])) =>
        /\ OutputAliases(aliasTracker, nodes[n].outputs[1], nodes[n].inputs[1])
        /\ hasWriters(aliasTracker, nodes[n].inputs[1])

\* ---- C20
\* No two Elements carry the same value, and the map binds each tracked
\* value to the Element that carries it.
OneElementPerValue(T) ==
  /\ \A e \in 1..Len(T.elements_), f \in 1..Len(T.elements_) :
       T.elements_[e].value = T.elements_[f].value => e = f
  /\ \A v \in DOMAIN T.map_ : T.elements_[T.map_[v]].value = v

\* pointedFrom is the exact inverse of pointsTo.
BackrefsAreInverse(T) ==
  \A e \in 1..Len(T.elements_), f \in 1..Len(T.elements_) :
    (f \in T.elements_[e].pointsTo) <=> (e \in T.elements_[f].pointedFrom)

\* Every Element of T is still there in T2 with its value and all its edges.
ElementsKept(T, T2) ==
  /\ Len(T2.elements_) >= Len(T.elements_)
  /\ \A e \in 1..Len(T.elements_) :
       /\ T2.elements_[e].value = T.elements_[e].value
       /\ T.elements_[e].pointsTo \subseteq T2.elements_[e].pointsTo
       /\ T.elements_[e].pointedFrom \subseteq T2.elements_[e].pointedFrom
  /\ \A v \in DOMAIN T.map_ : v \in DOMAIN T2.map_ /\ T2.map_[v] = T.map_[v]

\* C20: during and after analysis each value has at most one Element,
\* pointedFrom is the exact inverse of pointsTo, and no step removes or
\* merges an Element or deletes an edge.
C20_ElementsOnlyGrow ==
  /\ [](OneElementPerValue(aliasTracker) /\ BackrefsAreInverse(aliasTracker))
  /\ [][ElementsKept(aliasTracker, aliasTracker')]_vars

\* An analysed graph whose tracker holds at least four Elements, one of
\* them pointing to two others.
C20_Witness ==
  /\ pc = "done"
  /\ Len(aliasTracker.elements_) >= 4
  /\ \E e \in 1..Len(aliasTracker.elements_) :
       Cardinality(aliasTracker.elements_[e].pointsTo) >= 2
  /\ OneElementPerValue(aliasTracker) /\ BackrefsAreInverse(aliasTracker)

\* ---- C19
\* C19: in every analysis state a value whose type cannot alias
\* (shouldAnnotate is false) has no Element, is not marked wildcard, has no
\* writer recorded, and does not make a node count as touching a wildcard.
C19_TypeKindGate ==
  /\ \A v \in AllValues :
       ~shouldAnnotate(v) =>
         /\ ~contains(aliasTracker, v)
         /\ ~isWildcard(aliasTracker, v)
         /\ \A n \in DOMAIN nodes : ~writesTo(aliasTracker, n, v)
  /\ \A n \in DOMAIN nodes :
       hasWildcard(aliasTracker, nodes, n) =>
         \E v \in NodeValues(nodes, n) : shouldAnnotate(v) /\ isWildcard(aliasTracker, v)

\* ---- C22
\* C22: during and after analysis, for every value v of the graph
\* (untracked, tracked, wildcard, or tracked and wildcard), hasWriters(v)
\* is true exactly when getWrites(v) is not empty.
C22_HasWritersIsNonEmptyGetWrites ==
  (pc \in {"analyze", "done"}) =>
    \A v \in GraphValues(nodes) :
      hasWriters(aliasTracker, v) <=> (getWrites(aliasTracker, v) # {})

\* ---- C23
\* getWrites(v) as it runs with useCache_ = false: the writers found by the
\* search over both pointer directions.
getWritesUncached(T, v) ==
  IF ~contains(T, v) THEN {}
  ELSE T.wildcardWriters_ \cup
       UNION {T.elements_[e].writers : e \in bfs(T, T.map_[v], "BOTH")}

\* hasWriters(v) as it runs with useCache_ = false.
hasWritersUncached(T, v) ==
  IF ~contains(T, v) THEN FALSE
  ELSE IF isWildcard(T, v) THEN T.numWrites_ = 0
  ELSE IF Cardinality(T.wildcardWriters_) > 0 THEN TRUE
  ELSE \E e \in bfs(T, T.map_[v], "BOTH") : T.elements_[e].writers # {}

\* C23: for every points-to graph analysis builds and every tracked value
\* v, hasWriters(v) and getWrites(v) answered through the cache equal the
\* answers of the search over both pointer directions (useCache_ = false).
C23_CacheIsOnlyPerformance ==
  (pc \in {"analyze", "done"}) =>
    \A v \in GraphValues(nodes) :
      contains(aliasTracker, v) =>
        /\ getWrites(aliasTracker, v) = getWritesUncached(aliasTracker, v)
        /\ hasWriters(aliasTracker, v) = hasWritersUncached(aliasTracker, v)

\* ---- C27
\* The elements connected to those of S by pointer edges that do not touch
\* element x.
RECURSIVE ConnectedAvoiding(_, _, _)
ConnectedAvoiding(T, S, x) ==
  LET more == S \cup {e \in 1..Len(T.elements_) :
                       e # x /\ \E f \in S : {e, f} \in PointerEdges(T)}
  IN IF more = S THEN S ELSE ConnectedAvoiding(T, more, x)

\* The output of If node n points to both branch outputs X and Y, which are
\* tracked, not wildcards, and not connected to each other by any pointer
\* path that avoids the If output.
PointsToUnrelatedBranches(T, N, n) ==
  LET out == N[n].outputs[1]
      X == BranchOutput(N, n, 1, 1)
      Y == BranchOutput(N, n, 2, 1)
  IN /\ X # Y
     /\ \A v \in {out, X, Y} : contains(T, v) /\ ~isWildcard(T, v)
     /\ HasPointerEdge(T, out, X) /\ HasPointerEdge(T, out, Y)
     /\ T.map_[Y] \notin ConnectedAvoiding(T, {T.map_[X]}, T.map_[out])

\* C27: after analysis of an If whose output points to both X (true branch)
\* and Y (false branch), X and Y otherwise unrelated, the output is in the
\* getAliases set of X and of Y, but Y is not in getAliases(X) and X is not
\* in getAliases(Y).
C27_BranchTargetsDoNotAlias ==
  (pc = "done") =>
    \A n \in IfNodes(nodes) :
      PointsToUnrelatedBranches(aliasTracker, nodes, n) =>
        /\ nodes[n].outputs[1] \in getAliases(aliasTracker, BranchOutput(nodes, n, 1, 1))
        /\ nodes[n].outputs[1] \in getAliases(aliasTracker, BranchOutput(nodes, n, 2, 1))
        /\ BranchOutput(nodes, n, 2, 1) \notin getAliases(aliasTracker, BranchOutput(nodes, n, 1, 1))
        /\ BranchOutput(nodes, n, 1, 1) \notin getAliases(aliasTracker, BranchOutput(nodes, n, 2, 1))

\* ---- C29
\* C29: after analysis, every node n that writes (hasWrites(n)) has writers
\* (hasWriters(n)) and is among its own writers (getWriters(n)), also when
\* the value it writes to is a wildcard without an Element.
C29_WriterHasWriters ==
  (pc = "done") =>
    \A n \in DOMAIN nodes :
      hasWrites(aliasTracker, nodes, n) =>
        /\ AliasDb_hasWriters(aliasTracker, nodes, n)
        /\ n \in getWriters(aliasTracker, nodes, n)

\* ---- C28
\* Node o stands directly before movePoint and after n in the node list ord,
\* and uses an output of n.
DependentBetween(N, ord, n, o, movePoint) ==
  /\ o \in SeqToSet(ord) /\ o # n
  /\ DirectlyBefore(ord, o, movePoint)
  /\ Pos(ord, n) < Pos(ord, o)
  /\ SeqToSet(N[n].outputs) \cap UsedBy(N, o) # {}

\* C28: when moveBeforeTopologicallyValid(n, movePoint) succeeds on a block
\* where the node o directly before movePoint lies after n and depends on
\* n, it leaves n directly before movePoint and o after movePoint, while
\* moving n after o on the same block is refused.
C28_MoveBeforeIsNotMoveAfterPrev ==
  (last.op = "moveBefore" /\ last.ret) =>
    \A o \in SeqToSet(last.before) :
      DependentBetween(nodes, last.before, last.n, o, last.movePoint) =>
        /\ DirectlyBefore(order, last.n, last.movePoint)
        /\ Pos(order, o) > Pos(order, last.movePoint)
        /\ ~tryMove(aliasTracker, nodes, last.before, last.n, o, "AFTER", TRUE).ret

\* moveBefore(n, movePoint) has succeeded on the block n, o, movePoint with
\* o using n's output: the block is now n, movePoint, o, and n could not
\* have been moved after o.
C28_Witness ==
  /\ last.op = "moveBefore" /\ last.ret
  /\ Len(last.before) = 3
  /\ last.n = last.before[1] /\ last.movePoint = last.before[3]
  /\ DependentBetween(nodes, last.before, last.n, last.before[2], last.movePoint)
  /\ order = <<last.before[1], last.before[3], last.before[2]>>
  /\ ~tryMove(aliasTracker, nodes, last.before, last.n, last.before[2], "AFTER", TRUE).ret

\* ---- C24
\* The tracker with its cache thrown away, as a first query would find it.
WithoutCache(T) ==
  [T EXCEPT !.cacheStale_ = TRUE, !.elementToSet_ = EmptyFn, !.setToWrites_ = EmptyFn]

\* C24: in every state of the tracker, whatever queries have been made
\* before, getWrites(v) and hasWriters(v) answer for every tracked value v
\* they can look up what they would answer with the cache rebuilt from the
\* writes and edges the tracker holds now.
C24_QueriesSeeLaterWrites ==
  (pc = "cache") =>
    \A v \in CacheValues :
      ( /\ contains(aliasTracker, v)
        /\ ~cacheMisses(aliasTracker, v)
        /\ ~cacheMisses(WithoutCache(aliasTracker), v) ) =>
        /\ getWrites(aliasTracker, v) = getWrites(WithoutCache(aliasTracker), v)
        /\ hasWriters(aliasTracker, v) = hasWriters(WithoutCache(aliasTracker), v)

\* ---- C21
\* Node n takes the schema-driven path and its schema is variadic.
VariadicSchemaNode(N, n) ==
  /\ N[n].kind # "prim::If"
  /\ N[n].kind \notin CreatorKinds \cup ExtractorKinds
  /\ (schema(N, n).is_vararg \/ schema(N, n).is_varret)

HasAnnotatableOutput(N, n) ==
  \E i \in 1..Len(N[n].outputs) : shouldAnnotate(N[n].outputs[i])

\* C21: the analysis of a variadic-schema node with an annotatable output
\* aborts with an error, and no graph holding such a node ever comes out
\* analysed; the analysis of a variadic-schema node without an annotatable
\* output completes without error.
C21_VariadicWithTrackableOutputIsError ==
  /\ (last.op = "analyze" /\ VariadicSchemaNode(nodes, last.n)) =>
       IF HasAnnotatableOutput(nodes, last.n)
       THEN pc = "error" /\ ~last.ret
       ELSE pc # "error" /\ last.ret
  /\ (pc = "done") =>
       \A n \in DOMAIN nodes :
         VariadicSchemaNode(nodes, n) => ~HasAnnotatableOutput(nodes, n)

\* The analysis has just aborted on a variadic-schema node with a Tensor
\* output, after analysing another node without error.
C21_Witness ==
  /\ last.op = "analyze" /\ Len(order) >= 2
  /\ VariadicSchemaNode(nodes, last.n)
  /\ HasAnnotatableOutput(nodes, last.n)
  /\ pc = "error"

\* ---- C25
\* Node n takes the schema-driven path.
SchemaPathNode(N, n) ==
  /\ N[n].kind \notin {"prim::If", "prim::Return"}
  /\ N[n].kind \notin CreatorKinds \cup ExtractorKinds

\* C25: during and after analysis, for every analysed node on the
\* schema-driven path and every argument position whose formal carries a
\* write annotation and whose actual value is annotatable, writesTo(node,
\* actual) is true, also when several arguments carry the same label.
C25_WriteForEveryMutatingFormal ==
  (pc \in {"analyze", "done"}) =>
    \A n \in DOMAIN nodes :
      SchemaPathNode(nodes, n) =>
        \A i \in 1..Len(schema(nodes, n).arguments) :
          ( /\ schema(nodes, n).arguments[i].present
            /\ schema(nodes, n).arguments[i].isWrite
            /\ shouldAnnotate(nodes[n].inputs[i]) )
          => AliasDb_writesTo(aliasTracker, n, nodes[n].inputs[i])

\* ---- C30
\* C30: during and after analysis every annotatable output of every
\* analysed node has an Element or is marked wildcard, and the analysis of
\* a node fails only on a variadic schema with an annotatable output, never
\* on the assertion in registerWrite.
C30_NoAnnotatableValueUntracked ==
  /\ (pc \in {"analyze", "done"}) =>
       \A n \in DOMAIN nodes : \A i \in 1..Len(nodes[n].outputs) :
         shouldAnnotate(nodes[n].outputs[i]) =>
           \/ contains(aliasTracker, nodes[n].outputs[i])
           \/ isWildcard(aliasTracker, nodes[n].outputs[i])
  /\ (last.op = "analyze" /\ ~last.ret) =>
       VariadicSchemaNode(nodes, last.n) /\ HasAnnotatableOutput(nodes, last.n)

\* ---- C26
LoopNodes(N) == {n \in DOMAIN N : N[n].kind = "prim::Loop"}

\* The body inputs (by position) whose storage the body value x holds at the
\* end of one iteration: x is that body input, or the output of an
\* aten::t (a view of its input) or aten::relu_ (its input itself) applied
\* to it. The output of aten::relu is new storage.
HeldInputs(N, n, x) ==
  LET blockInputs == slice(N[n].blocks[1].inputs, 1)
  IN {j \in 1..Len(blockInputs) :
        \/ x = blockInputs[j]
        \/ \E m \in SeqToSet(N[n].blocks[1].nodes) :
             /\ N[m].kind \in {"aten::t", "aten::relu_"}
             /\ N[m].outputs[1] = x
             /\ N[m].inputs[1] = blockInputs[j]}

\* <<j, k>>: after one iteration, carried value k holds the storage that
\* carried value j held before it.
FlowsInOneIteration(N, n) ==
  LET blockOutputs == slice(BlockOutputs(N, N[n].blocks[1]), 1)
  IN {<<j, k>> \in (1..Len(blockOutputs)) \X (1..Len(blockOutputs)) :
        j \in HeldInputs(N, n, blockOutputs[k])}

\* The same after one or more iterations.
RECURSIVE FlowClosure(_, _)
FlowClosure(R, S) ==
  LET step == S \cup UNION {{<<p[1], q[2]>> : q \in {q \in R : q[1] = p[2]}} : p \in S}
  IN IF step = S THEN S ELSE FlowClosure(R, step)

FlowsAfterIterations(N, n) == FlowClosure(FlowsInOneIteration(N, n), FlowsInOneIteration(N, n))

\* C26: after analysis, every output k of a Loop node is in the alias set
\* of every loop-carried input i whose storage can flow to carried value k
\* in one or more iterations of the body.
C26_SinglePassLoopIsConservative ==
  (pc = "done") =>
    \A n \in LoopNodes(nodes) :
      \A f \in FlowsAfterIterations(nodes, n) :
        LET carried == slice(nodes[n].inputs, 2)[f[1]]
            out == nodes[n].outputs[f[2]]
        IN \/ isWildcard(aliasTracker, carried)
           \/ isWildcard(aliasTracker, out)
           \/ out \in getAliases(aliasTracker, carried)

====
